---- MODULE Spec2Model ----
(***************************************************************************)
(* Scroll-text composition and timing engine of go-dom-intro (main.go).    *)
(*                                                                         *)
(* Strings are sequences of one-character strings; the Go byte index i     *)
(* (0-based) addresses text[i+1].  float64 pixel quantities (offset,       *)
(* speed, spinc) are all multiples of 0.25 in the program, so they are     *)
(* kept as integers counted in quarters: 640 px is 2560, spinc 0.25 is 1.  *)
(***************************************************************************)
EXTENDS Integers, Sequences, FiniteSets, TLC

VARIABLES
    pieces,       \* the segments fullText was concatenated from (getFullText)
    pc,           \* position inside NewGame: "analyze", "rebuild", "create", "run"
    fullText,     \* g.fullText
    fontChanges,  \* g.fontChanges: sequence of FontChange{position, newSize}
    totalGlyphs,  \* g.totalGlyphs
    smallText, normalText, mediumText, bigText,   \* locals of NewGame
    scrollText1, scrollText2, scrollText3, scrollText4,  \* g.scrollTextN
    actSize,      \* g.actSize
    spinc,        \* g.spinc, in quarters
    keyF1, keyF2, \* ebiten.IsKeyPressed(F1/F2) as sampled by the last Update
    wrapped,      \* whether the last draw() of scrollText1 took its wrap branch
    st,           \* a single *ScrollText advanced by draw() at a fixed speed
    ticks,        \* number of draw() calls made on st
    trail,        \* offsets of st: trail[n+1] is the offset after n calls
    wrapLog       \* wraps of st: [tick, from, to] per wrap, in order

vars == <<pieces, pc, fullText, fontChanges, totalGlyphs,
          smallText, normalText, mediumText, bigText,
          scrollText1, scrollText2, scrollText3, scrollText4,
          actSize, spinc, keyF1, keyF2, wrapped, st, ticks, trail, wrapLog>>

---------------------------------------------------------------------------
(* Units and geometry *)

Q == 4                    \* quarters per unit (spinc's smallest rung is 0.25)
CanvasW == 640            \* width of scrollCanvas1..4, pixels
TileW == 40               \* tileW passed to newScrollText
Blank == " "

Abs(x) == IF x < 0 THEN 0 - x ELSE x
Floor(a, b) == a \div b                   \* math.Floor(a/b), b > 0
Ceil(a, b) == 0 - ((0 - a) \div b)        \* math.Ceil(a/b), b > 0

---------------------------------------------------------------------------
(* Control-code text annotator *)

Token(k) == <<"^", "C", "s", <<"0", "1", "2", "3">>[k + 1], ";">>

parseControlCode_shortBound(text, i) ==
    IF i + 5 >= Len(text) \/ text[i + 1] # "^"
    THEN [size |-> 0, ok |-> FALSE]
    ELSE LET tok == SubSeq(text, i + 1, i + 5)
         IN  IF tok = Token(0) THEN [size |-> 0, ok |-> TRUE]
             ELSE IF tok = Token(1) THEN [size |-> 1, ok |-> TRUE]
             ELSE IF tok = Token(2) THEN [size |-> 2, ok |-> TRUE]
             ELSE IF tok = Token(3) THEN [size |-> 3, ok |-> TRUE]
             ELSE [size |-> 0, ok |-> FALSE]

parseControlCode(text, i) ==
    IF i + 4 >= Len(text) \/ text[i + 1] # "^"
    THEN [size |-> 0, ok |-> FALSE]
    ELSE LET tok == SubSeq(text, i + 1, i + 5)
         IN  IF tok = Token(0) THEN [size |-> 0, ok |-> TRUE]
             ELSE IF tok = Token(1) THEN [size |-> 1, ok |-> TRUE]
             ELSE IF tok = Token(2) THEN [size |-> 2, ok |-> TRUE]
             ELSE IF tok = Token(3) THEN [size |-> 3, ok |-> TRUE]
             ELSE [size |-> 0, ok |-> FALSE]

RECURSIVE countVisibleCharsFrom(_, _, _)
countVisibleCharsFrom(text, i, count) ==
    IF i >= Len(text) THEN count
    ELSE IF parseControlCode(text, i).ok
         THEN countVisibleCharsFrom(text, i + 5, count)
         ELSE countVisibleCharsFrom(text, i + 1, count + 1)

countVisibleChars(text) == countVisibleCharsFrom(text, 0, 0)

---------------------------------------------------------------------------
(* Tier text rebuilder *)

RECURSIVE rebuildFrom_dropInactive(_, _, _, _, _)
rebuildFrom_dropInactive(text, size, active, i, sb) ==
    IF i >= Len(text) THEN sb
    ELSE LET code == parseControlCode(text, i)
         IN  IF code.ok
             THEN rebuildFrom_dropInactive(text, size, code.size = size, i + 5,
                                           sb \o SubSeq(text, i + 1, i + 5))
             ELSE rebuildFrom_dropInactive(text, size, active, i + 1,
                      IF active THEN Append(sb, text[i + 1]) ELSE sb)

RECURSIVE rebuildFrom(_, _, _, _, _)
rebuildFrom(text, size, active, i, sb) ==
    IF i >= Len(text) THEN sb
    ELSE LET code == parseControlCode(text, i)
         IN  IF code.ok
             THEN rebuildFrom(text, size, code.size = size, i + 5,
                              sb \o SubSeq(text, i + 1, i + 5))
             ELSE rebuildFrom(text, size, active, i + 1,
                      Append(sb, IF active THEN text[i + 1] ELSE Blank))

rebuildText_noDefault(text, size, defaultActive) ==
    rebuildFrom(text, size, FALSE, 0, <<>>)

rebuildText(text, size, defaultActive) ==
    rebuildFrom(text, size, defaultActive, 0, <<>>)

---------------------------------------------------------------------------
(* Font-change index *)

RECURSIVE preAnalyzeFrom_noCount(_, _, _, _)
preAnalyzeFrom_noCount(text, i, glyphPos, changes) ==
    IF i >= Len(text) THEN [fontChanges |-> changes, totalGlyphs |-> glyphPos]
    ELSE LET code == parseControlCode(text, i)
         IN  IF code.ok
             THEN preAnalyzeFrom_noCount(text, i + 5, glyphPos,
                      Append(changes, [position |-> glyphPos, newSize |-> code.size]))
             ELSE preAnalyzeFrom_noCount(text, i + 1, glyphPos, changes)

RECURSIVE preAnalyzeFrom(_, _, _, _)
preAnalyzeFrom(text, i, glyphPos, changes) ==
    IF i >= Len(text) THEN [fontChanges |-> changes, totalGlyphs |-> glyphPos]
    ELSE LET code == parseControlCode(text, i)
         IN  IF code.ok
             THEN preAnalyzeFrom(text, i + 5, glyphPos,
                      Append(changes, [position |-> glyphPos, newSize |-> code.size]))
             ELSE preAnalyzeFrom(text, i + 1, glyphPos + 1, changes)

preAnalyzeFontChanges(text) == preAnalyzeFrom(text, 0, 0, <<>>)

\* the lookup loop of updateActSizeFromScroll: newSize of the last change
\* whose position <= glyphPos, scanning in order and stopping at the first
\* change beyond glyphPos; 0 when there is none
RECURSIVE lookupFrom(_, _, _, _)
lookupFrom(changes, glyphPos, n, size) ==
    IF n > Len(changes) THEN size
    ELSE IF changes[n].position <= glyphPos
         THEN lookupFrom(changes, glyphPos, n + 1, changes[n].newSize)
         ELSE size

lookupSize(changes, glyphPos) == lookupFrom(changes, glyphPos, 1, 0)

\* the walk drawAtOffset makes over a tier's text, without the canvas clip:
\* the characters it maps to tiles, in order, and the directive tokens it
\* skips, each with its byte offset and tier id
RECURSIVE walkFrom(_, _, _, _)
walkFrom(text, i, glyphs, dirs) ==
    IF i >= Len(text) THEN [glyphs |-> glyphs, dirs |-> dirs]
    ELSE LET code == parseControlCode(text, i)
         IN  IF code.ok
             THEN walkFrom(text, i + 5, glyphs,
                           Append(dirs, [offset |-> i, size |-> code.size]))
             ELSE walkFrom(text, i + 1, Append(glyphs, text[i + 1]), dirs)

walk(text) == walkFrom(text, 0, <<>>, <<>>)

---------------------------------------------------------------------------
(* Scroll animator *)

\* NewGame builds the four tiers with tileW 40 and scaleX 1, 2, 4, 8
ScaleOf(tier) == <<1, 2, 4, 8>>[tier]

newScrollText(canvasW, tileW, scaleX, text) ==
    [speed |-> 0,
     offset |-> canvasW * Q,
     tileW |-> tileW,
     scaleX |-> scaleX,
     canvasW |-> canvasW,
     visibleChars |-> countVisibleChars(text)]

NoScrollText == newScrollText(0, 0, 0, <<>>)

draw_strictWrap(s) ==
    LET offset == s.offset - s.speed
        scaledTileW == s.tileW * s.scaleX
        totalWidth == s.visibleChars * scaledTileW * Q
    IN  IF s.visibleChars = 0 THEN [s EXCEPT !.offset = offset]
        ELSE IF totalWidth > 0 /\ offset < 0 - totalWidth
             THEN [s EXCEPT !.offset = offset + totalWidth + s.canvasW * Q]
             ELSE [s EXCEPT !.offset = offset]

draw_wrapTextOnly(s) ==
    LET offset == s.offset - s.speed
        scaledTileW == s.tileW * s.scaleX
        totalWidth == s.visibleChars * scaledTileW * Q
    IN  IF s.visibleChars = 0 THEN [s EXCEPT !.offset = offset]
        ELSE IF totalWidth > 0 /\ offset <= 0 - totalWidth
             THEN [s EXCEPT !.offset = offset + totalWidth]
             ELSE [s EXCEPT !.offset = offset]

draw(s) ==
    LET offset == s.offset - s.speed
        scaledTileW == s.tileW * s.scaleX
        totalWidth == s.visibleChars * scaledTileW * Q
    IN  IF s.visibleChars = 0 THEN [s EXCEPT !.offset = offset]
        ELSE IF totalWidth > 0 /\ offset <= 0 - totalWidth
             THEN [s EXCEPT !.offset = offset + totalWidth + s.canvasW * Q]
             ELSE [s EXCEPT !.offset = offset]

drawAt(s, offset) == [s EXCEPT !.offset = offset]

---------------------------------------------------------------------------
(* Speed table *)

setSpeed_sharedRow(g) ==
    LET set(a, b, c, d) ==
            [g EXCEPT !.scrollText1.speed = a * g.spinc,
                      !.scrollText2.speed = b * g.spinc,
                      !.scrollText3.speed = c * g.spinc,
                      !.scrollText4.speed = d * g.spinc]
    IN  CASE g.actSize = 0 -> set(8, 16, 32, 64)
          [] g.actSize = 1 -> set(4, 8, 16, 32)
          [] g.actSize = 2 -> set(2, 4, 8, 16)
          [] g.actSize = 3 -> set(2, 4, 8, 16)
          [] OTHER -> g

setSpeed(g) ==
    LET set(a, b, c, d) ==
            [g EXCEPT !.scrollText1.speed = a * g.spinc,
                      !.scrollText2.speed = b * g.spinc,
                      !.scrollText3.speed = c * g.spinc,
                      !.scrollText4.speed = d * g.spinc]
    IN  CASE g.actSize = 0 -> set(8, 16, 32, 64)
          [] g.actSize = 1 -> set(4, 8, 16, 32)
          [] g.actSize = 2 -> set(2, 4, 8, 16)
          [] g.actSize = 3 -> set(1, 2, 4, 8)
          [] OTHER -> g

---------------------------------------------------------------------------
(* Tier activity resolver *)

updateActSizeFromScroll(g) ==
    IF g.totalGlyphs = 0 THEN g
    ELSE
    LET s == CASE g.actSize = 1 -> g.scrollText2
               [] g.actSize = 2 -> g.scrollText3
               [] g.actSize = 3 -> g.scrollText4
               [] OTHER -> g.scrollText1
        tileW == s.tileW * s.scaleX
    IN  IF tileW <= 0 THEN g
        ELSE
        LET floorGlyph == Floor(0 - s.offset, tileW * Q)
            leftGlyph == IF floorGlyph < 0 THEN 0 ELSE floorGlyph
            visibleGlyphs == Ceil(s.canvasW, tileW) + 1
            sum == leftGlyph + visibleGlyphs
            glyphPos == IF sum >= g.totalGlyphs THEN g.totalGlyphs - 1 ELSE sum
            size == lookupSize(g.fontChanges, glyphPos)
        IN  IF size # g.actSize
            THEN setSpeed([g EXCEPT !.actSize = size])
            ELSE g

---------------------------------------------------------------------------
(* Game.Update, in the order of the code *)

pressF1_noCap(g) ==
    setSpeed([g EXCEPT !.spinc =
        IF g.spinc <= 4 * Q /\ g.spinc >= Q THEN g.spinc + Q
        ELSE IF g.spinc = Q \div 2 THEN Q
        ELSE IF g.spinc = Q \div 4 THEN Q \div 2
        ELSE g.spinc])

pressF1(g) ==
    setSpeed([g EXCEPT !.spinc =
        IF g.spinc < 4 * Q /\ g.spinc >= Q THEN g.spinc + Q
        ELSE IF g.spinc = Q \div 2 THEN Q
        ELSE IF g.spinc = Q \div 4 THEN Q \div 2
        ELSE g.spinc])

pressF2_toZero(g) ==
    setSpeed([g EXCEPT !.spinc =
        IF g.spinc >= Q THEN g.spinc - Q
        ELSE IF g.spinc = Q \div 2 THEN Q \div 4
        ELSE IF g.spinc = Q THEN Q \div 2
        ELSE g.spinc])

pressF2(g) ==
    setSpeed([g EXCEPT !.spinc =
        IF g.spinc > Q THEN g.spinc - Q
        ELSE IF g.spinc = Q \div 2 THEN Q \div 4
        ELSE IF g.spinc = Q THEN Q \div 2
        ELSE g.spinc])

followerOffset(baseOffset, baseWidth, s) ==
    baseOffset * s.scaleX + (1 - s.scaleX) * baseWidth

scrollTick_ownWrap(g) ==
    [g EXCEPT !.scrollText1 = draw(@), !.scrollText2 = draw(@),
              !.scrollText3 = draw(@), !.scrollText4 = draw(@)]

scrollTick(g) ==
    LET s1 == draw(g.scrollText1)
        baseOffset == s1.offset
        baseWidth == s1.canvasW * Q
    IN  [g EXCEPT !.scrollText1 = s1,
                  !.scrollText2 = drawAt(@, followerOffset(baseOffset, baseWidth, @)),
                  !.scrollText3 = drawAt(@, followerOffset(baseOffset, baseWidth, @)),
                  !.scrollText4 = drawAt(@, followerOffset(baseOffset, baseWidth, @))]

afterKeys(g, f1, f2) ==
    LET g1 == IF f1 THEN pressF1(g) ELSE g
    IN  IF f2 THEN pressF2(g1) ELSE g1

UpdateGame(g, f1, f2) ==
    updateActSizeFromScroll(scrollTick(afterKeys(g, f1, f2)))

---------------------------------------------------------------------------
(* NewGame *)

NewGame(text) ==
    LET idx == preAnalyzeFontChanges(text)
    IN  setSpeed(
          [fontChanges |-> idx.fontChanges,
           totalGlyphs |-> idx.totalGlyphs,
           scrollText1 |-> newScrollText(CanvasW, TileW, ScaleOf(1), rebuildText(text, 0, TRUE)),
           scrollText2 |-> newScrollText(CanvasW, TileW, ScaleOf(2), rebuildText(text, 1, FALSE)),
           scrollText3 |-> newScrollText(CanvasW, TileW, ScaleOf(3), rebuildText(text, 2, FALSE)),
           scrollText4 |-> newScrollText(CanvasW, TileW, ScaleOf(4), rebuildText(text, 3, FALSE)),
           actSize |-> 0,
           spinc |-> Q])

\* the Game fields as one record, and back
Game ==
    [fontChanges |-> fontChanges, totalGlyphs |-> totalGlyphs,
     scrollText1 |-> scrollText1, scrollText2 |-> scrollText2,
     scrollText3 |-> scrollText3, scrollText4 |-> scrollText4,
     actSize |-> actSize, spinc |-> spinc]

---------------------------------------------------------------------------
(* Inputs *)

MaxPieces == 4        \* segments per master message (text specification)
MaxVisible == 10      \* glyphs of the tier advanced alone
MaxTicks == 135       \* draw() calls on the tier advanced alone
RunGlyphs == 4        \* glyphs per run of the messages the game is run on

Glyphs(n) == [i \in 1..n |-> "A"]
Lit(s) == [lit |-> TRUE, s |-> s]
Dir(k) == [lit |-> FALSE, s |-> Token(k)]

\* literal segments (a glyph, a blank, the pieces of a directive spelled out
\* as text) and the four directive tokens
Segments ==
    {Lit(<<"A">>), Lit(<<Blank>>), Lit(<<"^", "C", "s">>), Lit(<<"1", ";">>)}
    \cup {Dir(k) : k \in 0..3}

BoundedSeq(S, n) == UNION {[1..k -> S] : k \in 0..n}

RECURSIVE Concat(_)
Concat(ps) == IF ps = <<>> THEN <<>> ELSE Head(ps).s \o Concat(Tail(ps))

Run(tier, n) == Token(tier) \o Glyphs(n)

\* an untagged lead, then the tier sequence the shipped message opens with
\* (2, 0, 3, 1) and its closing tier-0 run; and a short message that opens
\* with a directive and never returns to tier 0
GameTexts ==
    {Glyphs(RunGlyphs) \o Run(2, RunGlyphs) \o Run(0, RunGlyphs)
        \o Run(3, RunGlyphs) \o Run(1, RunGlyphs) \o Run(0, RunGlyphs),
     Run(3, RunGlyphs) \o Run(1, RunGlyphs)}

Ladder == {Q \div 4, Q \div 2, Q, 2 * Q, 3 * Q, 4 * Q}

---------------------------------------------------------------------------
(* NewGame step by step, over all bounded master messages *)

InitText ==
    /\ pieces \in BoundedSeq(Segments, MaxPieces)
    /\ fullText = Concat(pieces)
    /\ pc = "analyze"
    /\ fontChanges = <<>> /\ totalGlyphs = 0
    /\ smallText = <<>> /\ normalText = <<>> /\ mediumText = <<>> /\ bigText = <<>>
    /\ scrollText1 = NoScrollText /\ scrollText2 = NoScrollText
    /\ scrollText3 = NoScrollText /\ scrollText4 = NoScrollText
    /\ actSize = 0 /\ spinc = Q
    /\ keyF1 = FALSE /\ keyF2 = FALSE /\ wrapped = FALSE
    /\ st = NoScrollText /\ ticks = 0 /\ trail = <<>> /\ wrapLog = <<>>

PreAnalyze ==
    /\ pc = "analyze"
    /\ LET idx == preAnalyzeFontChanges(fullText)
       IN  /\ fontChanges' = idx.fontChanges
           /\ totalGlyphs' = idx.totalGlyphs
    /\ pc' = "rebuild"
    /\ UNCHANGED <<pieces, fullText, smallText, normalText, mediumText, bigText,
                   scrollText1, scrollText2, scrollText3, scrollText4,
                   actSize, spinc, keyF1, keyF2, wrapped, st, ticks, trail, wrapLog>>

Rebuild ==
    /\ pc = "rebuild"
    /\ smallText' = rebuildText(fullText, 0, TRUE)
    /\ normalText' = rebuildText(fullText, 1, FALSE)
    /\ mediumText' = rebuildText(fullText, 2, FALSE)
    /\ bigText' = rebuildText(fullText, 3, FALSE)
    /\ pc' = "create"
    /\ UNCHANGED <<pieces, fullText, fontChanges, totalGlyphs,
                   scrollText1, scrollText2, scrollText3, scrollText4,
                   actSize, spinc, keyF1, keyF2, wrapped, st, ticks, trail, wrapLog>>

CreateScrollTexts ==
    /\ pc = "create"
    /\ LET g == setSpeed(
                  [Game EXCEPT
                     !.scrollText1 = newScrollText(CanvasW, TileW, ScaleOf(1), smallText),
                     !.scrollText2 = newScrollText(CanvasW, TileW, ScaleOf(2), normalText),
                     !.scrollText3 = newScrollText(CanvasW, TileW, ScaleOf(3), mediumText),
                     !.scrollText4 = newScrollText(CanvasW, TileW, ScaleOf(4), bigText)])
       IN  /\ scrollText1' = g.scrollText1 /\ scrollText2' = g.scrollText2
           /\ scrollText3' = g.scrollText3 /\ scrollText4' = g.scrollText4
    /\ pc' = "run"
    /\ UNCHANGED <<pieces, fullText, fontChanges, totalGlyphs,
                   smallText, normalText, mediumText, bigText,
                   actSize, spinc, keyF1, keyF2, wrapped, st, ticks, trail, wrapLog>>

NextText == PreAnalyze \/ Rebuild \/ CreateScrollTexts

SpecText == InitText /\ [][NextText]_vars

---------------------------------------------------------------------------
(* One tier advanced by draw() at a fixed speed *)

\* the speed setSpeed gives tier `tier` under active tier a and multiplier m
SpeedOf(tier, a, m) ==
    LET g == setSpeed([NewGame(<<>>) EXCEPT !.actSize = a, !.spinc = m])
    IN  <<g.scrollText1, g.scrollText2, g.scrollText3, g.scrollText4>>[tier].speed

InitScroll ==
    /\ \E tier \in 1..4, n \in 0..MaxVisible, a \in 0..3, m \in Ladder :
          st = [newScrollText(CanvasW, TileW, ScaleOf(tier), Glyphs(n))
                    EXCEPT !.speed = SpeedOf(tier, a, m)]
    /\ ticks = 0 /\ trail = <<st.offset>> /\ wrapLog = <<>>
    /\ pieces = <<>> /\ fullText = <<>> /\ pc = "run"
    /\ fontChanges = <<>> /\ totalGlyphs = 0
    /\ smallText = <<>> /\ normalText = <<>> /\ mediumText = <<>> /\ bigText = <<>>
    /\ scrollText1 = NoScrollText /\ scrollText2 = NoScrollText
    /\ scrollText3 = NoScrollText /\ scrollText4 = NoScrollText
    /\ actSize = 0 /\ spinc = Q
    /\ keyF1 = FALSE /\ keyF2 = FALSE /\ wrapped = FALSE

Advance ==
    /\ ticks < MaxTicks
    /\ st' = draw(st)
    /\ ticks' = ticks + 1
    /\ trail' = Append(trail, st'.offset)
    /\ wrapLog' = IF st'.offset # st.offset - st.speed
                  THEN Append(wrapLog, [tick |-> ticks', from |-> st.offset - st.speed,
                                        to |-> st'.offset])
                  ELSE wrapLog
    /\ UNCHANGED <<pieces, pc, fullText, fontChanges, totalGlyphs,
                   smallText, normalText, mediumText, bigText,
                   scrollText1, scrollText2, scrollText3, scrollText4,
                   actSize, spinc, keyF1, keyF2, wrapped>>

NextScroll == Advance

SpecScroll == InitScroll /\ [][NextScroll]_vars

---------------------------------------------------------------------------
(* The game: the state after NewGame, then Update once per tick *)

Init ==
    /\ \E text \in GameTexts :
          /\ fullText = text
          /\ LET g == NewGame(text)
             IN  /\ fontChanges = g.fontChanges /\ totalGlyphs = g.totalGlyphs
                 /\ scrollText1 = g.scrollText1 /\ scrollText2 = g.scrollText2
                 /\ scrollText3 = g.scrollText3 /\ scrollText4 = g.scrollText4
                 /\ actSize = g.actSize /\ spinc = g.spinc
    /\ pieces = <<>> /\ pc = "run"
    /\ smallText = <<>> /\ normalText = <<>> /\ mediumText = <<>> /\ bigText = <<>>
    /\ keyF1 = FALSE /\ keyF2 = FALSE /\ wrapped = FALSE
    /\ st = NoScrollText /\ ticks = 0 /\ trail = <<>> /\ wrapLog = <<>>

Update(f1, f2) ==
    /\ pc = "run"
    /\ LET g == UpdateGame(Game, f1, f2)
           drawn == scrollTick(afterKeys(Game, f1, f2)).scrollText1
       IN  /\ fontChanges' = g.fontChanges /\ totalGlyphs' = g.totalGlyphs
           /\ scrollText1' = g.scrollText1 /\ scrollText2' = g.scrollText2
           /\ scrollText3' = g.scrollText3 /\ scrollText4' = g.scrollText4
           /\ actSize' = g.actSize /\ spinc' = g.spinc
           /\ wrapped' = (drawn.offset # scrollText1.offset - drawn.speed)
    /\ keyF1' = f1 /\ keyF2' = f2
    /\ UNCHANGED <<pieces, pc, fullText, smallText, normalText, mediumText, bigText,
                   st, ticks, trail, wrapLog>>

Next == \E f1 \in BOOLEAN, f2 \in BOOLEAN : Update(f1, f2)

Spec == Init /\ [][Next]_vars

---------------------------------------------------------------------------
(* countVisibleChars over built strings, as newScrollText applies it *)

InitCount ==
    /\ pieces \in BoundedSeq(Segments, MaxPieces)
    /\ fullText = Concat(pieces)
    /\ pc = "count"
    /\ fontChanges = <<>> /\ totalGlyphs = 0
    /\ smallText = <<>> /\ normalText = <<>> /\ mediumText = <<>> /\ bigText = <<>>
    /\ scrollText1 = NoScrollText /\ scrollText2 = NoScrollText
    /\ scrollText3 = NoScrollText /\ scrollText4 = NoScrollText
    /\ actSize = 0 /\ spinc = Q
    /\ keyF1 = FALSE /\ keyF2 = FALSE /\ wrapped = FALSE
    /\ st = NoScrollText /\ ticks = 0 /\ trail = <<>> /\ wrapLog = <<>>

CountVisible ==
    /\ pc = "count"
    /\ st' = newScrollText(CanvasW, TileW, ScaleOf(1), fullText)
    /\ pc' = "counted"
    /\ UNCHANGED <<pieces, fullText, fontChanges, totalGlyphs,
                   smallText, normalText, mediumText, bigText,
                   scrollText1, scrollText2, scrollText3, scrollText4,
                   actSize, spinc, keyF1, keyF2, wrapped, ticks, trail, wrapLog>>

NextCount == CountVisible

SpecCount == InitCount /\ [][NextCount]_vars

---------------------------------------------------------------------------
(* Properties of the text functions *)

TierText(k) == <<smallText, normalText, mediumText, bigText>>[k + 1]
Rebuilt == pc \in {"create", "run"}

\* the character a text shows at glyph position p (1-based here)
GlyphAt(text, p) ==
    LET gs == walk(text).glyphs IN IF p <= Len(gs) THEN gs[p] ELSE "?"

ShownBy(p) == {k \in 0..3 : GlyphAt(TierText(k), p) # Blank}

\* C1 as stated: at every glyph position exactly one of the four rebuilt
\* strings is non-blank, and it is the tier of the most recent directive
\* before the glyph, tier 0 when there is none.
C1_Partition_AsStated ==
    Rebuilt => \A p \in 1..totalGlyphs :
                  ShownBy(p) = {lookupSize(fontChanges, p - 1)}

\* C1 (amended): the partition holds at every glyph position whose master
\* character is not itself a blank; where the master has a blank, all four
\* rebuilt strings have a blank.
C1_Partition ==
    Rebuilt => \A p \in 1..totalGlyphs :
                  IF GlyphAt(fullText, p) # Blank
                  THEN ShownBy(p) = {lookupSize(fontChanges, p - 1)}
                  ELSE ShownBy(p) = {}

C1_Witness ==
    /\ Rebuilt
    /\ \E p \in 1..totalGlyphs, q \in 1..totalGlyphs :
          /\ GlyphAt(fullText, p) # Blank /\ fontChanges # <<>>
          /\ fontChanges[1].position >= p /\ ShownBy(p) = {0}
          /\ GlyphAt(fullText, q) # Blank /\ ShownBy(q) \cap {1, 2, 3} # {}
    /\ \E p \in 1..totalGlyphs : GlyphAt(fullText, p) = Blank

StrictlyIncreasing(changes) ==
    \A n \in 1..(Len(changes) - 1) : changes[n].position < changes[n + 1].position

\* C2 as stated: the index's glyph positions are strictly increasing.
C2_Monotonic_AsStated == pc # "analyze" => StrictlyIncreasing(fontChanges)

\* C2 (amended): the index's glyph positions never decrease, and one is
\* strictly greater than the one before exactly when at least one visible
\* character lies between the two directives.
C2_Monotonic ==
    pc # "analyze" =>
        LET dirs == walk(fullText).dirs
        IN  /\ Len(dirs) = Len(fontChanges)
            /\ \A n \in 1..(Len(fontChanges) - 1) :
                  /\ fontChanges[n].position <= fontChanges[n + 1].position
                  /\ (fontChanges[n].position < fontChanges[n + 1].position)
                        <=> (dirs[n + 1].offset > dirs[n].offset + 5)

C2_Witness ==
    /\ pc # "analyze"
    /\ \E n \in 1..(Len(fontChanges) - 1), m \in 1..(Len(fontChanges) - 1) :
          /\ fontChanges[n].position = fontChanges[n + 1].position
          /\ fontChanges[m].position < fontChanges[m + 1].position

RECURSIVE LiteralLen(_)
LiteralLen(ps) ==
    IF ps = <<>> THEN 0
    ELSE (IF Head(ps).lit THEN Len(Head(ps).s) ELSE 0) + LiteralLen(Tail(ps))

\* byte offsets (0-based) of the characters that came from literal segments
RECURSIVE LiteralOffsets(_, _)
LiteralOffsets(ps, at) ==
    IF ps = <<>> THEN {}
    ELSE (IF Head(ps).lit THEN at..(at + Len(Head(ps).s) - 1) ELSE {})
         \cup LiteralOffsets(Tail(ps), at + Len(Head(ps).s))

\* no directive token is spelled out by the literal text
NoLiteralToken ==
    \A j \in LiteralOffsets(pieces, 0) :
        j + 5 <= Len(fullText) =>
            SubSeq(fullText, j + 1, j + 5) \notin {Token(k) : k \in 0..3}

\* C5 as stated: the count equals the total length of the literal segments.
C5_RoundTrip_AsStated ==
    pc = "counted" => st.visibleChars = LiteralLen(pieces)

\* C5 (amended): the count equals the total length of the literal segments
\* provided the literal text does not itself spell out a directive token.
C5_RoundTrip ==
    (pc = "counted" /\ NoLiteralToken) => st.visibleChars = LiteralLen(pieces)

C5_Witness ==
    /\ pc = "counted" /\ NoLiteralToken
    /\ \E n \in 1..Len(pieces), m \in 1..Len(pieces) :
          /\ ~pieces[n].lit
          /\ pieces[m].lit /\ pieces[m].s[1] = "^"
    /\ ~pieces[Len(pieces)].lit
    /\ st.visibleChars > 0

\* byte offsets (0-based) the master's scan treats as visible characters
MasterTokenBytes ==
    UNION {d.offset..(d.offset + 4) : d \in {walk(fullText).dirs[n] : n \in 1..Len(walk(fullText).dirs)}}

\* C6: every rebuilt string has the master's length, each byte is the
\* master's byte or a blank in place of a visible character, a re-scan finds
\* the directive tokens at the master's byte offsets with the master's tier
\* ids, and each tier's visibleChars equals totalGlyphs.
C6_Alignment ==
    /\ Rebuilt =>
          \A k \in 0..3 :
             /\ Len(TierText(k)) = Len(fullText)
             /\ \A j \in 1..Len(fullText) :
                   \/ TierText(k)[j] = fullText[j]
                   \/ TierText(k)[j] = Blank /\ (j - 1) \notin MasterTokenBytes
             /\ walk(TierText(k)).dirs = walk(fullText).dirs
    /\ pc = "run" =>
          \A s \in {scrollText1, scrollText2, scrollText3, scrollText4} :
             s.visibleChars = totalGlyphs

C6_Witness ==
    /\ pc = "run"
    /\ Len(fontChanges) >= 2
    /\ scrollText4.visibleChars = totalGlyphs /\ totalGlyphs >= 2
    /\ \E k \in 0..3 : TierText(k) # fullText
    /\ \E j \in 1..Len(fullText) :
          fullText[j] = "^" /\ (j - 1) \notin MasterTokenBytes

---------------------------------------------------------------------------
(* Properties of draw() at a fixed speed *)

TotalWidth(s) == s.visibleChars * s.tileW * s.scaleX * Q
CanvasWidth(s) == s.canvasW * Q
Period(s) == (TotalWidth(s) + CanvasWidth(s)) \div s.speed
Divides(a, b) == b % a = 0

\* C3 as stated: totalWidth/speed calls later the offset is within one
\* speed-step of what it was.
C3_Wraparound_AsStated ==
    (st.visibleChars > 0 /\ st.speed > 0) =>
        LET n == TotalWidth(st) \div st.speed
        IN  \A i \in 0..(ticks - n) :
               Abs(trail[i + n + 1] - trail[i + 1]) <= st.speed

\* C3 (amended): when the speed divides totalWidth + canvasWidth,
\* (totalWidth + canvasWidth)/speed calls later the offset is exactly what it
\* was, whichever call the count starts from.
C3_Wraparound ==
    (st.visibleChars > 0 /\ st.speed > 0
        /\ Divides(st.speed, TotalWidth(st) + CanvasWidth(st))) =>
        \A i \in 0..(ticks - Period(st)) :
           trail[i + Period(st) + 1] = trail[i + 1]

C3_Witness ==
    /\ st.visibleChars > 0 /\ st.speed > 0
    /\ Divides(st.speed, TotalWidth(st) + CanvasWidth(st))
    /\ ticks >= Period(st) + 3 /\ Period(st) > 1
    /\ wrapLog # <<>>
    /\ trail[3] # trail[1] /\ trail[Period(st) + 3] = trail[3]

\* C7: started at offset = canvasWidth and advanced at a speed s dividing
\* totalWidth + canvasWidth, the tier wraps for the first time on call
\* (totalWidth + canvasWidth)/s, from offset exactly -totalWidth, and that
\* call leaves the offset at canvasWidth.
C7_FirstWrap ==
    (st.visibleChars > 0 /\ st.speed > 0
        /\ Divides(st.speed, TotalWidth(st) + CanvasWidth(st))) =>
        /\ trail[1] = CanvasWidth(st)
        /\ ticks < Period(st) => wrapLog = <<>>
        /\ ticks >= Period(st) =>
              /\ wrapLog # <<>>
              /\ wrapLog[1] = [tick |-> Period(st), from |-> 0 - TotalWidth(st),
                               to |-> CanvasWidth(st)]
        /\ ticks = Period(st) => st.offset = CanvasWidth(st)

\* the instance of section 8: tileW 40, scaleX 1, 10 glyphs, canvas 640,
\* speed 8: call 130 takes 640 to -400 and wraps back to 640
C7_Witness ==
    /\ st.tileW = 40 /\ st.scaleX = 1 /\ st.visibleChars = 10 /\ st.canvasW = 640
    /\ st.speed = 8 * Q
    /\ ticks = 130
    /\ wrapLog = <<[tick |-> 130, from |-> 0 - 400 * Q, to |-> 640 * Q]>>
    /\ st.offset = 640 * Q

---------------------------------------------------------------------------
(* Properties of the running game *)

Speeds == <<scrollText1.speed, scrollText2.speed, scrollText3.speed, scrollText4.speed>>

BaseRow(tier) ==
    <<<<8, 16, 32, 64>>, <<4, 8, 16, 32>>, <<2, 4, 8, 16>>, <<1, 2, 4, 8>>>>[tier + 1]

\* C4: after NewGame and after every Update the four speeds are the base row
\* of the active tier times the multiplier, hence in the ratio 1:2:4:8.
C4_SpeedTable ==
    /\ actSize \in 0..3
    /\ \A n \in 1..4 : Speeds[n] = BaseRow(actSize)[n] * spinc
    /\ Speeds[2] = 2 * Speeds[1] /\ Speeds[3] = 4 * Speeds[1]
    /\ Speeds[4] = 8 * Speeds[1]

C4_Witness ==
    /\ actSize = 3 /\ spinc = 3 * Q /\ keyF1 /\ ~keyF2
    /\ Speeds = <<3 * Q, 6 * Q, 12 * Q, 24 * Q>>

LadderSeq == <<Q \div 4, Q \div 2, Q, 2 * Q, 3 * Q, 4 * Q>>
Rung(m) == CHOOSE n \in 1..Len(LadderSeq) : LadderSeq[n] = m
Up(m) == LadderSeq[IF Rung(m) < Len(LadderSeq) THEN Rung(m) + 1 ELSE Rung(m)]
Down(m) == LadderSeq[IF Rung(m) > 1 THEN Rung(m) - 1 ELSE 1]

\* C8: the multiplier is always one of 0.25, 0.5, 1, 2, 3, 4; a tick with no
\* key leaves it, F1 alone moves it one rung up (4 stays 4), F2 alone one
\* rung down (0.25 stays 0.25).
C8_Ladder ==
    /\ [](spinc \in {LadderSeq[n] : n \in 1..Len(LadderSeq)})
    /\ [][/\ (~keyF1' /\ ~keyF2') => spinc' = spinc
          /\ (keyF1' /\ ~keyF2') => spinc' = Up(spinc)
          /\ (~keyF1' /\ keyF2') => spinc' = Down(spinc)]_vars

C8_Witness == keyF2 /\ ~keyF1 /\ spinc = Q \div 4 /\ actSize = 1

\* C9: initially and after every Update, wrap ticks included, each follower's
\* offset is masterOffset * scaleX + (1 - scaleX) * canvasWidth, the master
\* being scrollText1.
C9_PhaseLock ==
    \A s \in {scrollText2, scrollText3, scrollText4} :
        s.offset = scrollText1.offset * s.scaleX
                       + (1 - s.scaleX) * CanvasWidth(scrollText1)

C9_Witness ==
    /\ wrapped /\ scrollText1.offset < CanvasWidth(scrollText1)
    /\ scrollText4.offset = 8 * scrollText1.offset - 7 * CanvasWidth(scrollText1)
    /\ scrollText4.offset # scrollText1.offset

\* whether at least one Update has run
Ticked == wrapped \/ scrollText1.offset # CanvasWidth(scrollText1)

\* the glyph position of section 4.5, from the geometry of tier s
GlyphPosOf(s) ==
    LET tileW == s.tileW * s.scaleX
        floorGlyph == Floor(0 - s.offset, tileW * Q)
        leftGlyph == IF floorGlyph < 0 THEN 0 ELSE floorGlyph
        sum == leftGlyph + Ceil(s.canvasW, tileW) + 1
    IN  IF sum < totalGlyphs - 1 THEN sum ELSE totalGlyphs - 1

---------------------------------------------------------------------------
(* The game run forever: the host calls Update on every tick *)

\* the long message of GameTexts, and a message of one directive and no glyph
LoopTexts ==
    {Run(1, RunGlyphs) \o Run(2, RunGlyphs) \o Run(3, RunGlyphs),
     Run(3, RunGlyphs) \o Run(1, RunGlyphs)}

InitLoop ==
    /\ \E text \in LoopTexts :
          /\ fullText = text
          /\ LET g == NewGame(text)
             IN  /\ fontChanges = g.fontChanges /\ totalGlyphs = g.totalGlyphs
                 /\ scrollText1 = g.scrollText1 /\ scrollText2 = g.scrollText2
                 /\ scrollText3 = g.scrollText3 /\ scrollText4 = g.scrollText4
                 /\ actSize = g.actSize /\ spinc = g.spinc
    /\ pieces = <<>> /\ pc = "run"
    /\ smallText = <<>> /\ normalText = <<>> /\ mediumText = <<>> /\ bigText = <<>>
    /\ keyF1 = FALSE /\ keyF2 = FALSE /\ wrapped = FALSE
    /\ st = NoScrollText /\ ticks = 0 /\ trail = <<>> /\ wrapLog = <<>>

\* Game.Update, one stage of the code after the other
Tick(f1, f2) ==
    /\ pc = "run"
    /\ \E g1 \in {IF f1 THEN pressF1(Game) ELSE Game} :
       \E g2 \in {IF f2 THEN pressF2(g1) ELSE g1} :
       \E g3 \in {scrollTick(g2)} :
       \E g \in {updateActSizeFromScroll(g3)} :
          /\ fontChanges' = g.fontChanges /\ totalGlyphs' = g.totalGlyphs
          /\ scrollText1' = g.scrollText1 /\ scrollText2' = g.scrollText2
          /\ scrollText3' = g.scrollText3 /\ scrollText4' = g.scrollText4
          /\ actSize' = g.actSize /\ spinc' = g.spinc
          /\ wrapped' = (g3.scrollText1.offset
                            # scrollText1.offset - g3.scrollText1.speed)
    /\ keyF1' = f1 /\ keyF2' = f2
    /\ UNCHANGED <<pieces, pc, fullText, smallText, normalText, mediumText, bigText,
                   st, ticks, trail, wrapLog>>

NextLoop == \E f1 \in BOOLEAN, f2 \in BOOLEAN : Tick(f1, f2)

SpecLoop == InitLoop /\ [][NextLoop]_vars /\ WF_vars(NextLoop)

InRange(s) == 0 - TotalWidth(s) < s.offset /\ s.offset <= CanvasWidth(s)

\* C11: the scroll loops forever. Whatever the F1/F2 key states and the
\* active-tier changes, the master tier's speed is always strictly positive,
\* its offset strictly decreases on every tick that does not wrap, the offset
\* lies in (-totalWidth, canvasWidth] after every tick, and the wrap occurs
\* infinitely often.
C11_LoopsForever ==
    /\ [](scrollText1.speed > 0)
    /\ [](InRange(scrollText1))
    /\ [][~wrapped' => scrollText1.offset' < scrollText1.offset]_vars
    /\ []<>wrapped

C11_Witness ==
    /\ scrollText1.visibleChars > 0 /\ wrapped
    /\ keyF1 /\ spinc = 4 * Q /\ actSize # 0
    /\ scrollText1.offset > CanvasWidth(scrollText1) - scrollText1.speed
    /\ InRange(scrollText1)

====
